---- MODULE Spec2Model ----
(***************************************************************************)
(* Dependency graph of kustomize overlays: reference extraction            *)
(* (GetKustomizationRefs), graph construction (BuildRefs), inversion       *)
(* (InvertRefs) and the climb to the root units (FindParents).             *)
(*                                                                         *)
(* A path is a sequence of segments.  An absolute path starts with the     *)
(* segment "/"; a relative one does not.  A Go map[string][]string is a    *)
(* function from a finite set of paths to sequences of paths; the nil map  *)
(* is the function with the empty domain.                                  *)
(***************************************************************************)
EXTENDS Integers, Sequences, FiniteSets, TLC

VARIABLES
    fs,        \* the directory tree on disk (never written by the program)
    pc,        \* position of the program: "idle", "running", "done", "overflow", ...
    changed,   \* the changed-file identifier the caller passed to FindParents
    stack,     \* the activation records of FindParents, outermost first
    result,    \* what the outermost FindParents returned: [paths, err]
    failed,    \* TRUE once a BuildRefs of the current resolution returned an error
    graph,     \* what the last BuildRefs calls returned (forward map, reverse map, err)
    graph2,    \* what a second BuildRefs of the same tree returned
    extracted, \* what the last GetKustomizationRefs call returned
    refMap,    \* the argument of the last InvertRefs call
    inverted   \* what the last InvertRefs call returned

vars == <<fs, pc, changed, stack, result, failed, graph, graph2, extracted, refMap, inverted>>

-----------------------------------------------------------------------------
(* Bounds of the model *)

\* declared entries of one unit, all three lists together (extractor inputs)
MaxDecl == 2
\* declared entries of the whole tree (pipeline inputs)
MaxRefs == 3
\* activation records after which the Go runtime's stack limit is taken as hit
MaxDepth == 6
\* length of a reference list in an InvertRefs input
MaxList == 2

-----------------------------------------------------------------------------
(* Small helpers on sequences and maps *)

Range(s) == {s[i] : i \in 1..Len(s)}

Last(s) == s[Len(s)]

Front(s) == SubSeq(s, 1, Len(s) - 1)

\* s[m..n], cut to the elements s has
Slice(s, m, n) ==
    LET hi == IF n < Len(s) THEN n ELSE Len(s)
    IN  [i \in 1..(hi - m + 1) |-> s[i + m - 1]]

\* number of occurrences of e in s
Count(s, e) == Cardinality({i \in 1..Len(s) : s[i] = e})

\* the sequences over S of length at most n
SeqsUpTo(S, n) == UNION {[1..k -> S] : k \in 0..n}

\* the enumerations without repetition of the finite set S
Perms(S) == {p \in [1..Cardinality(S) -> S] : Range(p) = S}

\* the element of a one-element set.  Written The({e(x) : x \in {v}}), it is e(v)
\* with v evaluated once, before e uses it
The(S) == CHOOSE x \in S : TRUE

EmptyMap == <<>>

\* m[k] of a Go map: the zero value (nil slice) for an absent key
Lookup(m, k) == IF k \in DOMAIN m THEN m[k] ELSE <<>>

\* m[k] = v of a Go map
MapSet(m, k, v) == [x \in (DOMAIN m) \cup {k} |-> IF x = k THEN v ELSE m[x]]

-----------------------------------------------------------------------------
(* path/filepath *)

RECURSIVE CleanFrom(_, _)
\* filepath.Clean, segment by segment: acc is the cleaned prefix
CleanFrom(acc, segs) ==
    IF segs = <<>> THEN acc
    ELSE LET s == Head(segs)
             rest == Tail(segs)
         IN  IF s = "." THEN CleanFrom(acc, rest)
             ELSE IF s = ".."
                  THEN IF acc = <<>> \/ Last(acc) = ".."
                       THEN CleanFrom(Append(acc, ".."), rest)
                       ELSE IF Last(acc) = "/"
                            THEN CleanFrom(acc, rest)
                            ELSE CleanFrom(Front(acc), rest)
                  ELSE CleanFrom(Append(acc, s), rest)

\* filepath.Clean: the empty relative path is "."
Clean(p) ==
    LET c == CleanFrom(<<>>, p)
    IN  IF c = <<>> THEN <<".">> ELSE c

\* filepath.Join
Join(a, b) == Clean(a \o b)

RECURSIVE CommonPrefix(_, _)
\* length of the longest common prefix of two paths
CommonPrefix(a, b) ==
    IF a = <<>> \/ b = <<>> \/ Head(a) # Head(b) THEN 0
    ELSE 1 + CommonPrefix(Tail(a), Tail(b))

\* filepath.Rel of two absolute paths: never fails on them
Rel(base, targ) ==
    LET b == Clean(base)
        t == Clean(targ)
        k == CommonPrefix(b, t)
        ups == [i \in 1..(Len(b) - k) |-> ".."]
        r == ups \o SubSeq(t, k + 1, Len(t))
    IN  IF r = <<>> THEN <<".">> ELSE r

-----------------------------------------------------------------------------
(* The directory tree *)

\* the root directory handed to BuildRefs and FindParents (dirPath, basePath)
Root == <<"/", "w">>

DirA == Root \o <<"a">>

DirC == Root \o <<"a", "c">>

DirB == Root \o <<"b">>

\* the directories under the root, the root included
TreeDirs == {Root, DirA, DirC, DirB}

\* the parent of the root exists too, and is outside the tree
AllDirs == TreeDirs \cup {<<"/">>}

Yaml == "kustomization.yaml"

Yml == "kustomization.yml"

UnitNames == {Yaml, Yml}

\* fs.units[d] maps each unit file name present in directory d to its document;
\* fs.files is the set of the other regular files.
UnitsIn(tree, d) == IF d \in DOMAIN tree.units THEN DOMAIN tree.units[d] ELSE {}

\* utils.Exists on a file path
Exists(tree, p) ==
    \/ p \in AllDirs
    \/ p \in tree.files
    \/ Len(p) > 1 /\ Last(p) \in UnitsIn(tree, Front(p))

\* os.Stat followed by fileInfo.IsDir: "absent" when Stat returns an error
Stat(tree, p) ==
    IF p \in AllDirs THEN "dir"
    ELSE IF Exists(tree, p) THEN "file"
    ELSE "absent"

\* KustomizationExists trying the two names in the other order
KustomizationExistsYmlFirst(tree, path) ==
    IF Exists(tree, Join(path, <<Yml>>)) THEN [exists |-> TRUE, name |-> Yml]
    ELSE IF Exists(tree, Join(path, <<Yaml>>)) THEN [exists |-> TRUE, name |-> Yaml]
    ELSE [exists |-> FALSE, name |-> ""]

KustomizationExists(tree, path) ==
    IF Exists(tree, Join(path, <<Yaml>>)) THEN [exists |-> TRUE, name |-> Yaml]
    ELSE IF Exists(tree, Join(path, <<Yml>>)) THEN [exists |-> TRUE, name |-> Yml]
    ELSE [exists |-> FALSE, name |-> ""]

-----------------------------------------------------------------------------
(* GetKustomizationRefs *)

NilErr == "nil"

ErrNoKustomizationFile == "no kustomization file found"

ErrUnmarshal == "yaml: unmarshal error"

ErrNoKustomizationInDir == "No Kustomization found in dir"

\* SimpleResources appending the patches before the resources and components
SimpleResourcesPatchesFirst(doc) ==
    doc.patchesStrategicMerge \o doc.resources \o doc.components

\* the three lists of the Kustomization struct, appended in turn
SimpleResources(doc) ==
    doc.resources \o doc.components \o doc.patchesStrategicMerge

\* ResolveRef naming the unit of a directory kustomization.yaml whichever of the
\* two files the directory holds
ResolveRefYamlName(tree, basePath, path, r) ==
    LET rel == Rel(basePath, Join(path, r))
        candidatePath == Join(path, r)
        kind == Stat(tree, candidatePath)
    IN  IF kind = "absent" THEN [err |-> NilErr, ref |-> rel]
        ELSE IF kind = "dir"
             THEN IF ~KustomizationExists(tree, candidatePath).exists
                  THEN [err |-> ErrNoKustomizationInDir, ref |-> <<>>]
                  ELSE [err |-> NilErr,
                        ref |-> Rel(basePath, Join(candidatePath, <<Yaml>>))]
             ELSE [err |-> NilErr, ref |-> rel]

\* ResolveRef without the directory case: every entry is recorded as it resolves
ResolveRefBareDir(tree, basePath, path, r) ==
    [err |-> NilErr, ref |-> Rel(basePath, Join(path, r))]

\* the body of the loop over simpleResources, for one entry r
ResolveRef(tree, basePath, path, r) ==
    LET rel == Rel(basePath, Join(path, r))
        candidatePath == Join(path, r)
        kind == Stat(tree, candidatePath)
    IN  IF kind = "absent" THEN [err |-> NilErr, ref |-> rel]
        ELSE IF kind = "dir"
             THEN LET k == KustomizationExists(tree, candidatePath)
                  IN  IF ~k.exists
                      THEN [err |-> ErrNoKustomizationInDir, ref |-> <<>>]
                      ELSE [err |-> NilErr,
                            ref |-> Rel(basePath, Join(candidatePath, <<k.name>>))]
             ELSE [err |-> NilErr, ref |-> rel]

RECURSIVE ResolveAll(_, _, _, _, _)
\* the loop over simpleResources: refs is what was appended so far
ResolveAll(tree, basePath, path, rs, refs) ==
    IF rs = <<>> THEN [refs |-> refs, err |-> NilErr]
    ELSE The({IF one.err # NilErr THEN [refs |-> <<>>, err |-> one.err]
              ELSE ResolveAll(tree, basePath, path, Tail(rs), one.refs) :
                one \in {[err |-> r.err, refs |-> Append(refs, r.ref)] :
                            r \in {ResolveRef(tree, basePath, path, Head(rs))}}})

GetKustomizationRefs(tree, basePath, path) ==
    LET k == KustomizationExists(tree, path)
    IN  IF ~k.exists THEN [refs |-> <<>>, err |-> ErrNoKustomizationFile]
        ELSE LET doc == tree.units[path][k.name]
             IN  IF ~doc.valid THEN [refs |-> <<>>, err |-> ErrUnmarshal]
                 ELSE ResolveAll(tree, basePath, path, SimpleResources(doc), <<>>)

-----------------------------------------------------------------------------
(* InvertRefs *)

RECURSIVE AppendEachAssign(_, _, _)
\* AppendEach assigning [k] to invertedRefs[e] instead of appending k to it
AppendEachAssign(inv, v, k) ==
    IF v = <<>> THEN inv
    ELSE The({AppendEachAssign(next, Tail(v), k) : next \in {MapSet(inv, Head(v), <<k>>)}})

RECURSIVE AppendEach(_, _, _)
\* the inner loop, for _, e := range v: invertedRefs[e] = append(invertedRefs[e], k)
AppendEach(inv, v, k) ==
    IF v = <<>> THEN inv
    ELSE The({AppendEach(next, Tail(v), k) :
                next \in {MapSet(inv, Head(v), Append(Lookup(inv, Head(v)), k))}})

RECURSIVE InvertFrom(_, _, _)
\* the outer loop, for k, v := range refMap, the keys coming in the order `order`
InvertFrom(inv, m, order) ==
    IF order = <<>> THEN inv
    ELSE The({InvertFrom(next, m, Tail(order)) :
                next \in {AppendEach(inv, m[Head(order)], Head(order))}})

\* InvertRefs leaving the outer loop after its first round
InvertRefsFirstOnly(m, order) ==
    IF order = <<>> THEN EmptyMap
    ELSE AppendEach(EmptyMap, m[Head(order)], Head(order))

\* order: the order in which Go's range happens to enumerate the keys of m
InvertRefs(m, order) == InvertFrom(EmptyMap, m, order)

\* the orders a range over m can take
RangeOrders(m) == Perms(DOMAIN m)

-----------------------------------------------------------------------------
(* BuildRefs *)

IsPrefix(a, b) == Len(a) <= Len(b) /\ SubSeq(b, 1, Len(a)) = a

\* the directories of the tree in lexical order
LexicalDirs == <<Root, DirA, DirC, DirB>>

\* the directories filepath.WalkDir hands to its callback, in the order it does
WalkDir(dirPath) == SelectSeq(LexicalDirs, LAMBDA d : IsPrefix(dirPath, d))

\* WalkFn skipping a unit whose extraction fails instead of returning the error
WalkFnKeepGoing(tree, dirPath, acc, path) ==
    LET k == KustomizationExists(tree, path)
        r == GetKustomizationRefs(tree, dirPath, Join(dirPath, Rel(dirPath, path)))
    IN  IF ~k.exists \/ r.err # NilErr THEN acc
        ELSE [refMap |-> MapSet(acc.refMap, Join(Rel(dirPath, path), <<k.name>>), r.refs),
              err |-> NilErr]

\* WalkFn recording a directory without a unit under its own path
WalkFnAllDirs(tree, dirPath, acc, path) ==
    LET k == KustomizationExists(tree, path)
        r == GetKustomizationRefs(tree, dirPath, Join(dirPath, Rel(dirPath, path)))
    IN  IF ~k.exists THEN [refMap |-> MapSet(acc.refMap, Rel(dirPath, path), <<>>),
                           err |-> NilErr]
        ELSE IF r.err # NilErr THEN [refMap |-> acc.refMap, err |-> r.err]
        ELSE [refMap |-> MapSet(acc.refMap, Join(Rel(dirPath, path), <<k.name>>), r.refs),
              err |-> NilErr]

\* the callback given to filepath.WalkDir, for the directory `path`
WalkFn(tree, dirPath, acc, path) ==
    LET k == KustomizationExists(tree, path)
        relPath == Rel(dirPath, path)
        absPath == Join(dirPath, relPath)
        r == GetKustomizationRefs(tree, dirPath, absPath)
    IN  IF ~k.exists THEN acc
        ELSE IF r.err # NilErr THEN [refMap |-> acc.refMap, err |-> r.err]
        ELSE [refMap |-> MapSet(acc.refMap, Join(relPath, <<k.name>>), r.refs),
              err |-> NilErr]

RECURSIVE Walk(_, _, _, _)
\* filepath.WalkDir: stops at the first error its callback returns
Walk(tree, dirPath, dirs, acc) ==
    IF dirs = <<>> \/ acc.err # NilErr THEN acc
    ELSE The({Walk(tree, dirPath, Tail(dirs), next) :
                next \in {WalkFn(tree, dirPath, acc, Head(dirs))}})

\* refMap and err as they stand after the walk
WalkResult(tree, dirPath) ==
    Walk(tree, dirPath, WalkDir(dirPath), [refMap |-> EmptyMap, err |-> NilErr])

\* BuildRefs, first part: the forward map, nil on error
ForwardRefs(tree, dirPath) ==
    The({IF w.err # NilErr THEN [refMap |-> EmptyMap, err |-> w.err] ELSE w :
            w \in {WalkResult(tree, dirPath)}})

\* BuildRefs, second part: the inverted map, nil on error
Inverted(f, order) ==
    IF f.err # NilErr THEN [refs |-> EmptyMap, err |-> f.err]
    ELSE [refs |-> InvertRefs(f.refMap, order), err |-> NilErr]

\* BuildRefs
BuildRefs(tree, dirPath, order) ==
    The({Inverted(f, order) : f \in {ForwardRefs(tree, dirPath)}})

\* everything one BuildRefs call can return, over the orders its range can take
BuildResults(tree, dirPath) ==
    UNION {{Inverted(f, order) : order \in RangeOrders(f.refMap)} :
              f \in {ForwardRefs(tree, dirPath)}}

\* the callback of the BuildRefs of pkg/utils/kustomize.go: keyed by directory
WalkFnByDir(tree, dirPath, acc, path) ==
    LET k == KustomizationExists(tree, path)
        relPath == Rel(dirPath, path)
        absPath == Join(dirPath, relPath)
        r == GetKustomizationRefs(tree, dirPath, absPath)
    IN  IF ~k.exists THEN acc
        ELSE IF r.err # NilErr THEN [refMap |-> acc.refMap, err |-> r.err]
        ELSE [refMap |-> MapSet(acc.refMap, relPath, r.refs), err |-> NilErr]

RECURSIVE WalkByDir(_, _, _, _)
WalkByDir(tree, dirPath, dirs, acc) ==
    IF dirs = <<>> \/ acc.err # NilErr THEN acc
    ELSE The({WalkByDir(tree, dirPath, Tail(dirs), next) :
                next \in {WalkFnByDir(tree, dirPath, acc, Head(dirs))}})

\* BuildRefs of pkg/utils/kustomize.go: the forward map, nil on error
BuildRefsByDir(tree, dirPath) ==
    The({IF w.err # NilErr THEN [refMap |-> EmptyMap, err |-> w.err] ELSE w :
            w \in {WalkByDir(tree, dirPath, WalkDir(dirPath),
                             [refMap |-> EmptyMap, err |-> NilErr])}})

-----------------------------------------------------------------------------
(* FindParents, one activation record per call *)

\* allRefs, err := BuildRefs(basePath); refs := allRefs[referrent]
NewFrame(referrent, built) ==
    [referrent |-> referrent,
     refs |-> Lookup(built.refs, referrent),
     i |-> 1,
     parents |-> <<>>,
     err |-> built.err]

\* FrameReturn without the base case
FrameReturnNoBase(f) == [paths |-> f.parents, err |-> f.err]

\* what a call whose loop is over returns
FrameReturn(f) ==
    IF Len(f.refs) = 0 THEN [paths |-> <<f.referrent>>, err |-> NilErr]
    ELSE [paths |-> f.parents, err |-> f.err]

\* Absorb leaving out the paths that parents already holds
AbsorbDistinct(f, ret) ==
    [f EXCEPT !.parents = @ \o SelectSeq(ret.paths, LAMBDA p : p \notin Range(f.parents)),
              !.i = @ + 1]

\* Absorb appending the referrer itself before what its call returned
AbsorbWithReferrer(f, ret) ==
    [f EXCEPT !.parents = @ \o <<f.refs[f.i]>> \o ret.paths, !.i = @ + 1]

\* Absorb assigning p to parents instead of appending it
AbsorbAssign(f, ret) == [f EXCEPT !.parents = ret.paths, !.i = @ + 1]

\* p, _ := FindParents(ref, basePath); parents = append(parents, p...)
Absorb(f, ret) == [f EXCEPT !.parents = @ \o ret.paths, !.i = @ + 1]

\* the call on top of the stack still has a referrer to recurse into
HasNext(f) == Len(f.refs) # 0 /\ f.i <= Len(f.refs)

Top == stack[Len(stack)]

-----------------------------------------------------------------------------
(* Inputs *)

EmptyDoc ==
    [resources |-> <<>>, components |-> <<>>, patchesStrategicMerge |-> <<>>, valid |-> TRUE]

\* a document yaml.Unmarshal rejects
BadDoc == [EmptyDoc EXCEPT !.valid = FALSE]

\* the entries a unit of the pipeline inputs may declare, as written in the unit
Entries == {<<"f">>, <<"c">>, <<"..">>, <<"..", "b">>}

\* a unit declaring the entries s: the first as a resource, the second as a
\* component, the others as patches
DocOf(s) ==
    [resources |-> Slice(s, 1, 1),
     components |-> Slice(s, 2, 2),
     patchesStrategicMerge |-> Slice(s, 3, Len(s)),
     valid |-> TRUE]

\* the document of a kustomization.yml shadowed by a kustomization.yaml
ShadowDoc == DocOf(<< <<"..", "a">> >>)

\* the declarations of a whole tree: pairs <<directory, entry>>, grouped by
\* directory in the order of LexicalDirs
DeclSeqs ==
    {s \in SeqsUpTo((1..Len(LexicalDirs)) \X Entries, MaxRefs) :
        \A i \in 1..(Len(s) - 1) : s[i][1] <= s[i + 1][1]}

\* the entries that the declarations s give directory number j
EntriesOf(s, j) ==
    LET mine == SelectSeq(s, LAMBDA e : e[1] = j)
    IN  [i \in 1..Len(mine) |-> mine[i][2]]

\* the documents directory number j may hold under the declarations s: none or
\* an empty one when s gives it no entry, and for a/c an unparsable one
DocChoices(s, j) ==
    IF EntriesOf(s, j) # <<>> THEN {DocOf(EntriesOf(s, j))}
    ELSE IF LexicalDirs[j] = DirC THEN {EmptyDoc, BadDoc} ELSE {EmptyDoc}

\* the unit files directory number j may hold: directory b is the one that
\* uses the second accepted file name, alone or shadowed by the first
UnitChoices(s, j) ==
    (IF EntriesOf(s, j) = <<>> THEN {<<>>} ELSE {}) \cup
    (IF LexicalDirs[j] = DirB
     THEN {(Yml :> doc) : doc \in DocChoices(s, j)} \cup
          {(Yaml :> doc) @@ (Yml :> ShadowDoc) : doc \in DocChoices(s, j)}
     ELSE {(Yaml :> doc) : doc \in DocChoices(s, j)})

\* the plain files of the pipeline inputs: a/f is the one that exists
PlainFiles == {DirA \o <<"f">>}

\* the trees of the pipeline inputs whose declarations are s
TreesOf(s) ==
    {[units |-> (Root :> r) @@ (DirA :> a) @@ (DirC :> c) @@ (DirB :> b),
      files |-> PlainFiles] :
        r \in UnitChoices(s, 1), a \in UnitChoices(s, 2),
        c \in UnitChoices(s, 3), b \in UnitChoices(s, 4)}

\* the identifiers of the unit files of the tree
UnitIds(tree) ==
    UNION {{Rel(Root, Join(d, <<n>>)) : n \in UnitsIn(tree, d)} : d \in TreeDirs}

\* every identifier that occurs in the map m, as a key or in a list
Nodes(m) == (DOMAIN m) \cup UNION {Range(m[k]) : k \in DOMAIN m}

\* a file of the tree that no unit can reference
Unreferenced == <<"a", "g">>

\* the changed-file identifiers FindParents is asked about
ChangedFiles(tree) ==
    UnitIds(tree) \cup Nodes(ForwardRefs(tree, Root).refMap) \cup {Unreferenced}

-----------------------------------------------------------------------------
(* The state machine *)

NoResult == [paths |-> <<>>, err |-> NilErr]

NoGraph ==
    [forward |-> [refMap |-> EmptyMap, err |-> NilErr],
     reverse |-> [refs |-> EmptyMap, err |-> NilErr],
     byDir |-> [refMap |-> EmptyMap, err |-> NilErr]]

NoExtract == [basePath |-> Root, path |-> Root, refs |-> <<>>, err |-> NilErr]

Init ==
    /\ \E s \in DeclSeqs : fs \in TreesOf(s)
    /\ pc = "idle"
    /\ changed = <<>>
    /\ stack = <<>>
    /\ result = NoResult
    /\ failed = FALSE
    /\ graph = NoGraph
    /\ graph2 = NoGraph
    /\ extracted = NoExtract
    /\ refMap = EmptyMap
    /\ inverted = EmptyMap

\* one run of the graph builder on the tree, in both versions of BuildRefs
Built(reverse) ==
    [forward |-> ForwardRefs(fs, Root),
     reverse |-> reverse,
     byDir |-> BuildRefsByDir(fs, Root)]

\* BuildRefs(root)
Build ==
    /\ pc = "idle"
    /\ \E built \in BuildResults(fs, Root) : graph' = Built(built)
    /\ pc' = "built"
    /\ UNCHANGED <<fs, changed, stack, result, failed, graph2, extracted, refMap, inverted>>

\* BuildRefs(root) once more, on the unchanged tree
Rebuild ==
    /\ pc = "built"
    /\ \E built \in BuildResults(fs, Root) : graph2' = Built(built)
    /\ pc' = "rebuilt"
    /\ UNCHANGED <<fs, changed, stack, result, failed, graph, extracted, refMap, inverted>>

\* the caller's FindParents(x, root): the outermost call is entered
Start ==
    /\ pc = "idle"
    /\ \E built \in BuildResults(fs, Root), x \in ChangedFiles(fs) :
        /\ changed' = x
        /\ stack' = <<NewFrame(x, built)>>
        /\ failed' = (built.err # NilErr)
    /\ pc' = "running"
    /\ UNCHANGED <<fs, result, graph, graph2, extracted, refMap, inverted>>

\* FindParents(ref, basePath) inside the loop: a nested call is entered
Descend ==
    /\ pc = "running"
    /\ HasNext(Top)
    /\ Len(stack) < MaxDepth
    /\ \E built \in BuildResults(fs, Root) :
        /\ stack' = Append(stack, NewFrame(Top.refs[Top.i], built))
        /\ failed' = (failed \/ built.err # NilErr)
    /\ UNCHANGED <<fs, pc, changed, result, graph, graph2, extracted, refMap, inverted>>

\* the nested call that would exceed the goroutine's stack limit: the Go
\* runtime ends the program with a fatal stack overflow
Overflow ==
    /\ pc = "running"
    /\ HasNext(Top)
    /\ Len(stack) >= MaxDepth
    /\ pc' = "overflow"
    /\ UNCHANGED <<fs, changed, stack, result, failed, graph, graph2, extracted, refMap, inverted>>

\* the call on top returns, to the call below it or to the caller
Return ==
    /\ pc = "running"
    /\ ~HasNext(Top)
    /\ IF Len(stack) = 1
       THEN /\ result' = FrameReturn(Top)
            /\ stack' = <<>>
            /\ pc' = "done"
       ELSE /\ stack' = Append(SubSeq(stack, 1, Len(stack) - 2),
                               Absorb(stack[Len(stack) - 1], FrameReturn(Top)))
            /\ UNCHANGED <<result, pc>>
    /\ UNCHANGED <<fs, changed, failed, graph, graph2, extracted, refMap, inverted>>

Next ==
    \/ Build
    \/ Rebuild
    \/ Start
    \/ Descend
    \/ Overflow
    \/ Return

Spec == Init /\ [][Next]_vars

-----------------------------------------------------------------------------
(* GetKustomizationRefs on its own: the unit of directory a declares any three
   lists, and what its entries point at varies *)

\* the entries the unit of directory a may declare: a file of its directory, its
\* sub-directory, its sibling directory, its parent directory
ExtractEntries == {<<"f">>, <<"c">>, <<"..", "b">>, <<"..">>}

\* the documents of the extractor inputs
ExtractDocs ==
    {BadDoc} \cup
    {d \in [resources : SeqsUpTo(ExtractEntries, MaxDecl),
            components : SeqsUpTo(ExtractEntries, MaxDecl),
            patchesStrategicMerge : SeqsUpTo(ExtractEntries, MaxDecl),
            valid : {TRUE}] :
        Len(d.resources) + Len(d.components) + Len(d.patchesStrategicMerge) <= MaxDecl}

\* a directory holding the document doc under either name, or under the first
\* name with another document under the second
NamedUnits(doc) ==
    {(Yaml :> doc), (Yml :> doc), (Yaml :> doc) @@ (Yml :> ShadowDoc)}

\* the trees of the extractor inputs
ExtractTrees ==
    {[units |-> (Root :> <<>>) @@ (DirA :> a) @@ (DirC :> c) @@ (DirB :> b),
      files |-> files] :
        a \in {<<>>} \cup UNION {NamedUnits(doc) : doc \in ExtractDocs},
        c \in {<<>>} \cup NamedUnits(EmptyDoc),
        b \in {<<>>, (Yml :> EmptyDoc)},
        files \in SUBSET PlainFiles}

InitExtract ==
    /\ fs \in ExtractTrees
    /\ pc = "idle"
    /\ changed = <<>>
    /\ stack = <<>>
    /\ result = NoResult
    /\ failed = FALSE
    /\ graph = NoGraph
    /\ graph2 = NoGraph
    /\ extracted = NoExtract
    /\ refMap = EmptyMap
    /\ inverted = EmptyMap

\* GetKustomizationRefs(basePath, path)
Extract(basePath, path) ==
    /\ pc = "idle"
    /\ LET r == GetKustomizationRefs(fs, basePath, path)
       IN  extracted' = [basePath |-> basePath, path |-> path, refs |-> r.refs, err |-> r.err]
    /\ pc' = "extracted"
    /\ UNCHANGED <<fs, changed, stack, result, failed, graph, graph2, refMap, inverted>>

\* the base paths of the extractor inputs: the root, as BuildRefs passes it, and
\* a directory above it, as the tests pass it
BasePaths == {Root, <<"/">>}

NextExtract == \E basePath \in BasePaths, path \in {DirA, DirC} : Extract(basePath, path)

SpecExtract == InitExtract /\ [][NextExtract]_vars

-----------------------------------------------------------------------------
(* InvertRefs on its own *)

InvertKeys == {<<"a">>, <<"b">>, <<"c">>}

InvertTargets == {<<"elem1">>, <<"elem2">>, <<"a">>}

\* the forward maps of the inverter inputs
InvertInputs ==
    UNION {[K -> SeqsUpTo(InvertTargets, MaxList)] : K \in SUBSET InvertKeys}

InitInvert ==
    /\ refMap \in InvertInputs
    /\ inverted = EmptyMap
    /\ pc = "idle"
    /\ fs = [units |-> [d \in TreeDirs |-> <<>>], files |-> {}]
    /\ changed = <<>>
    /\ stack = <<>>
    /\ result = NoResult
    /\ failed = FALSE
    /\ graph = NoGraph
    /\ graph2 = NoGraph
    /\ extracted = NoExtract

\* InvertRefs(refMap)
Invert ==
    /\ pc = "idle"
    /\ \E order \in RangeOrders(refMap) : inverted' = InvertRefs(refMap, order)
    /\ pc' = "inverted"
    /\ UNCHANGED <<fs, changed, stack, result, failed, graph, graph2, extracted, refMap>>

NextInvert == Invert

SpecInvert == InitInvert /\ [][NextInvert]_vars

-----------------------------------------------------------------------------
(* The reference graph of a tree, as sets *)

\* the units that list n in the forward map fwd
Referrers(fwd, n) == {k \in DOMAIN fwd : n \in Range(fwd[k])}

RECURSIVE ClimbFrom(_, _)
\* S and everything reached from S by following referenced-by edges
ClimbFrom(fwd, S) ==
    LET more == S \cup UNION {Referrers(fwd, n) : n \in S}
    IN  IF more = S THEN S ELSE ClimbFrom(fwd, more)

\* the nodes reached from n by one or more referenced-by edges
Ancestors(fwd, n) == ClimbFrom(fwd, Referrers(fwd, n))

\* the nodes without referrers reached from n by zero or more referenced-by edges
ReachableRoots(fwd, n) == {r \in ClimbFrom(fwd, {n}) : Referrers(fwd, r) = {}}

Acyclic(fwd) == \A n \in Nodes(fwd) : n \notin Ancestors(fwd, n)

\* the climb from n runs into two different units each of which references the
\* other, directly or through other units
ReachesCycle(fwd, n) ==
    \E a, b \in ClimbFrom(fwd, {n}) :
        a # b /\ a \in Ancestors(fwd, b) /\ b \in Ancestors(fwd, a)

\* the forward edge set of the tree
TreeRefs == ForwardRefs(fs, Root)

\* the nodes the calls in progress are resolving, outermost first
OnStack == [i \in 1..Len(stack) |-> stack[i].referrent]

NoRepeat(s) == \A i, j \in 1..Len(s) : i # j => s[i] # s[j]

-----------------------------------------------------------------------------
(* Claims about FindParents *)

\* C1: on a tree whose graph is built and whose reverse graph is acyclic,
\* FindParents(x, root) terminates (no activation record is entered for a node
\* an enclosing call is resolving, and the stack limit is never hit) and the set
\* of paths it returns is exactly the set of nodes without referrers that are
\* reachable from x by zero or more referenced-by edges.
C1_ReachableRoots ==
    (pc \in {"running", "done", "overflow"}) =>
        LET t == TreeRefs
        IN  (t.err = NilErr /\ Acyclic(t.refMap)) =>
                /\ pc # "overflow"
                /\ NoRepeat(OnStack)
                /\ pc = "done" => Range(result.paths) = ReachableRoots(t.refMap, changed)

\* a finished climb of an acyclic graph from a node that is no root, through an
\* intermediate unit, to two different roots
C1_Witness ==
    /\ pc = "done"
    /\ changed \notin Range(result.paths)
    /\ Cardinality(Range(result.paths)) = 2
    /\ LET t == TreeRefs
       IN  /\ t.err = NilErr
           /\ Acyclic(t.refMap)
           /\ Cardinality(ClimbFrom(t.refMap, {changed})) >= 4

\* C2: when no unit references x (x has no entry, or an empty one, in the reverse
\* edge set: an unreferenced unit, a file no unit references, a node absent from
\* the graph), FindParents(x, root) returns exactly [x] and no error.
C2_RootFixedPoint ==
    (pc = "done" /\ Referrers(TreeRefs.refMap, changed) = {}) =>
        (result.paths = <<changed>> /\ result.err = NilErr)

\* FindParents has returned for a unit that declares references and that no unit
\* references
C2_Witness ==
    /\ pc = "done"
    /\ result.paths = <<changed>>
    /\ LET t == TreeRefs
       IN  /\ t.err = NilErr
           /\ changed \in DOMAIN t.refMap
           /\ t.refMap[changed] # <<>>
           /\ Referrers(t.refMap, changed) = {}

ErrCyclicReference == "CyclicReference"

\* C3: when unit A references unit B and unit B references unit A, directly or
\* transitively, a climb that reaches them terminates and fails with a
\* CyclicReference error: no call is entered for a node that an enclosing call
\* is already resolving, the stack limit is never hit, and the resolution ends
\* with that error.
C3_CycleSafety ==
    (pc \in {"running", "done", "overflow"} /\ ReachesCycle(TreeRefs.refMap, changed)) =>
        /\ NoRepeat(OnStack)
        /\ pc # "overflow"
        /\ pc = "done" => result.err = ErrCyclicReference

\* C4: when a BuildRefs of the resolution failed, the outermost FindParents
\* returns an error and no result paths.
C4_BuildErrorPropagated ==
    (pc = "done" /\ failed) => (result.err # NilErr /\ result.paths = <<>>)

-----------------------------------------------------------------------------
(* Claims about InvertRefs *)

\* C5: InvertRefs returns the converse of its input: a occurs in reverse[b] if
\* and only if b occurs in forward[a], and the keys of the reverse map are exactly
\* the nodes that occur in some forward list.
C5_InvertConverse ==
    pc = "inverted" =>
        /\ \A a, b \in InvertKeys \cup InvertTargets :
                (a \in Range(Lookup(inverted, b))) <=>
                    (a \in DOMAIN refMap /\ b \in Range(refMap[a]))
        /\ DOMAIN inverted = UNION {Range(refMap[a]) : a \in DOMAIN refMap}

\* an inversion of a map with a source whose list is empty, a source that is
\* also a target, and a target listed by two sources
C5_Witness ==
    /\ pc = "inverted"
    /\ \E a \in DOMAIN refMap : refMap[a] = <<>>
    /\ \E a \in DOMAIN refMap : a \in DOMAIN inverted
    /\ \E b \in DOMAIN inverted : Cardinality(Range(inverted[b])) >= 2

-----------------------------------------------------------------------------
(* Claims about GetKustomizationRefs *)

\* the document of the unit of directory d: that of kustomization.yaml when the
\* directory holds it
UnitDoc(tree, d) ==
    IF Yaml \in UnitsIn(tree, d) THEN tree.units[d][Yaml] ELSE tree.units[d][Yml]

\* the file or directory the entry r of the unit of directory d points at
Target(d, r) == Clean(d \o r)

HoldsUnit(tree, p) == p \in TreeDirs /\ UnitsIn(tree, p) # {}

\* the path of the unit file of directory p
UnitFile(tree, p) == p \o <<IF Yaml \in UnitsIn(tree, p) THEN Yaml ELSE Yml>>

\* the identifier of the entry r of the unit of directory d: the unit file of
\* the directory it points at, or else the path it points at, relative to base
ResolvedId(tree, base, d, r) ==
    IF HoldsUnit(tree, Target(d, r))
    THEN Rel(base, UnitFile(tree, Target(d, r)))
    ELSE Rel(base, Target(d, r))

\* C6: for a unit declaring resources R, components C and patches P, each entry
\* of which has an identifier, GetKustomizationRefs returns |R|+|C|+|P|
\* identifiers: those of R in order, then those of C in order, then those of P in
\* order.
C6_ForwardEdgeOrder ==
    (pc = "extracted" /\ extracted.err = NilErr) =>
        LET doc == UnitDoc(fs, extracted.path)
            R == doc.resources
            C == doc.components
            P == doc.patchesStrategicMerge
            id(r) == ResolvedId(fs, extracted.basePath, extracted.path, r)
            refs == extracted.refs
        IN  /\ Len(refs) = Len(R) + Len(C) + Len(P)
            /\ \A i \in 1..Len(R) : refs[i] = id(R[i])
            /\ \A i \in 1..Len(C) : refs[Len(R) + i] = id(C[i])
            /\ \A i \in 1..Len(P) : refs[Len(R) + Len(C) + i] = id(P[i])

\* an extraction from a unit that declares a patch and, with another
\* identifier, a resource or a component
C6_Witness ==
    /\ pc = "extracted"
    /\ extracted.err = NilErr
    /\ Len(extracted.refs) = 2
    /\ extracted.refs[1] # extracted.refs[2]
    /\ Len(UnitDoc(fs, extracted.path).patchesStrategicMerge) = 1

\* C7: GetKustomizationRefs records an entry that does not exist, or that is a
\* regular file, as its path relative to the base path, and an entry that is a
\* directory holding a unit as the path of that unit file; absent entries never
\* make it fail; an entry that is a directory without a unit makes it fail with
\* the missing-nested-config error and return no references.
C7_Classification ==
    (pc = "extracted" /\ extracted.err # ErrNoKustomizationFile
                      /\ extracted.err # ErrUnmarshal) =>
        LET decl == SimpleResources(UnitDoc(fs, extracted.path))
            at(i) == Target(extracted.path, decl[i])
            bare == {i \in 1..Len(decl) : at(i) \in AllDirs /\ ~HoldsUnit(fs, at(i))}
            refs == extracted.refs
        IN  IF bare # {}
            THEN extracted.err = ErrNoKustomizationInDir /\ refs = <<>>
            ELSE /\ extracted.err = NilErr
                 /\ Len(refs) = Len(decl)
                 /\ \A i \in 1..Len(decl) :
                        IF at(i) \in AllDirs
                        THEN /\ refs[i] = Rel(extracted.basePath, UnitFile(fs, at(i)))
                             /\ refs[i] # Rel(extracted.basePath, at(i))
                             /\ Exists(fs, at(i) \o <<Last(refs[i])>>)
                        ELSE refs[i] = Rel(extracted.basePath, at(i))

\* an extraction that succeeds on a unit declaring an entry that does not exist
\* and a directory that holds a unit
C7_Witness ==
    /\ pc = "extracted"
    /\ extracted.err = NilErr
    /\ LET decl == SimpleResources(UnitDoc(fs, extracted.path))
       IN  /\ \E i \in 1..Len(decl) : Stat(fs, Target(extracted.path, decl[i])) = "absent"
           /\ \E i \in 1..Len(decl) : HoldsUnit(fs, Target(extracted.path, decl[i]))

-----------------------------------------------------------------------------
(* Claims about BuildRefs *)

\* the directories under the root that hold a unit file
UnitDirs(tree) == {d \in TreeDirs : UnitsIn(tree, d) # {}}

\* the unit directories for which the Extractor fails
FailingDirs(tree) ==
    {d \in UnitDirs(tree) : GetKustomizationRefs(tree, Root, d).err # NilErr}

\* position of directory d in the walk
WalkIndex(d) == CHOOSE i \in 1..Len(LexicalDirs) : LexicalDirs[i] = d

\* C8: BuildRefs is all-or-nothing, in both of its versions: if the Extractor
\* fails for some unit directory under the root it returns an error and no map,
\* and if it returns no error the Extractor succeeded for every unit directory.
C8_AllOrNothing ==
    pc \in {"built", "rebuilt"} =>
        IF FailingDirs(fs) # {}
        THEN /\ graph.reverse.err # NilErr /\ graph.reverse.refs = EmptyMap
             /\ graph.forward.err # NilErr /\ graph.forward.refMap = EmptyMap
             /\ graph.byDir.err # NilErr /\ graph.byDir.refMap = EmptyMap
        ELSE /\ graph.reverse.err = NilErr
             /\ graph.forward.err = NilErr
             /\ graph.byDir.err = NilErr

\* a build that failed at a unit visited after a unit whose references had
\* been extracted
C8_Witness ==
    /\ pc = "built"
    /\ graph.reverse.err # NilErr
    /\ \E d \in UnitDirs(fs), e \in FailingDirs(fs) :
        /\ WalkIndex(d) < WalkIndex(e)
        /\ GetKustomizationRefs(fs, Root, d).err = NilErr
        /\ GetKustomizationRefs(fs, Root, d).refs # <<>>

SameElements(s, t) ==
    /\ Len(s) = Len(t)
    /\ \A e \in Range(s) \cup Range(t) : Count(s, e) = Count(t, e)

\* the maps m and n have the same keys and, order aside, the same lists
SameEdges(m, n) ==
    /\ DOMAIN m = DOMAIN n
    /\ \A k \in DOMAIN m : SameElements(m[k], n[k])

\* C10: two builds of the same unchanged tree yield the same forward edge set
\* and the same reverse edge set, the order inside each list aside.
C10_Idempotence ==
    pc = "rebuilt" =>
        /\ graph.forward.err = graph2.forward.err
        /\ graph.reverse.err = graph2.reverse.err
        /\ SameEdges(graph.forward.refMap, graph2.forward.refMap)
        /\ SameEdges(graph.reverse.refs, graph2.reverse.refs)

\* two builds whose ranges over the forward map took different orders, so that
\* a reverse list came out in two different orders
C10_Witness ==
    /\ pc = "rebuilt"
    /\ graph.reverse.err = NilErr
    /\ graph.reverse.refs # graph2.reverse.refs

-----------------------------------------------------------------------------
(* What the result names *)

\* the identifier of the unit file KustomizationExists picks in directory d
EffectiveUnitId(tree, d) == Rel(Root, UnitFile(tree, d))

\* p names the unit file of a directory of the tree, and no unit of the tree
\* lists it
RootUnitFile(tree, fwd, p) ==
    /\ \E d \in UnitDirs(tree) : p = EffectiveUnitId(tree, d)
    /\ Referrers(fwd, p) = {}

\* C11 as stated: every path of a result returned with a nil error names a
\* unit file of the tree that no unit references; no plain file and no
\* identifier of an absent file is ever returned
C11_RootUnitsOnly ==
    (pc = "done" /\ result.err = NilErr) =>
        \A p \in Range(result.paths) : RootUnitFile(fs, TreeRefs.refMap, p)

\* C11 amended: every path of a result returned with a nil error names a unit
\* file of the tree that no unit references, or is the changed-file identifier
\* itself, returned alone because the reverse map holds no referrer for it
C11_RootUnitsOrSelf ==
    (pc = "done" /\ result.err = NilErr) =>
        \/ /\ result.paths = <<changed>>
           /\ Referrers(TreeRefs.refMap, changed) = {}
        \/ \A p \in Range(result.paths) : RootUnitFile(fs, TreeRefs.refMap, p)

\* a plain file was resolved through a unit that is itself referenced, up to
\* root units only
C11_Witness ==
    /\ pc = "done"
    /\ result.err = NilErr
    /\ ~failed
    /\ changed \notin UnitIds(fs)
    /\ result.paths # <<>>
    /\ changed \notin Range(result.paths)
    /\ \E u \in Referrers(TreeRefs.refMap, changed) : Referrers(TreeRefs.refMap, u) # {}

-----------------------------------------------------------------------------
(* How often the result names a root *)

RECURSIVE PathCount(_, _, _)
RECURSIVE SumOver(_, _, _, _)
\* the sum, over the referrers k in S of n, of the number of times k lists n
\* times the number of reverse paths from k to r
SumOver(fwd, S, n, r) ==
    IF S = {} THEN 0
    ELSE The({Count(fwd[k], n) * PathCount(fwd, k, r) + SumOver(fwd, S \ {k}, n, r) :
                k \in {CHOOSE j \in S : TRUE}})

\* the number of reverse-edge paths from n to the root r in an acyclic graph,
\* an entry listed k times counting as k edges
PathCount(fwd, n, r) ==
    IF Referrers(fwd, n) = {} THEN (IF n = r THEN 1 ELSE 0)
    ELSE SumOver(fwd, Referrers(fwd, n), n, r)

\* no unit lists the same entry twice
NoParallelEdges(fwd) == \A k \in DOMAIN fwd : NoRepeat(fwd[k])

\* C12: on a tree whose graph is built and acyclic, every root occurs in the
\* result of FindParents(x) as many times as there are reverse-edge paths from
\* x to it, an entry a unit lists k times counting as k edges; nothing is
\* deduplicated
C12_Multiplicity ==
    (pc = "done") =>
        LET t == TreeRefs
        IN  (t.err = NilErr /\ Acyclic(t.refMap)) =>
                \A r \in Nodes(t.refMap) \cup Range(result.paths) \cup {changed} :
                    Count(result.paths, r) =
                        (IF Referrers(t.refMap, r) = {}
                         THEN PathCount(t.refMap, changed, r) ELSE 0)

\* two different paths converged on one root, no unit listing an entry twice,
\* and the root came out twice
C12_Witness ==
    /\ pc = "done"
    /\ TreeRefs.err = NilErr
    /\ Acyclic(TreeRefs.refMap)
    /\ NoParallelEdges(TreeRefs.refMap)
    /\ \E r \in Range(result.paths) : Count(result.paths, r) = 2

-----------------------------------------------------------------------------
(* Identifiers of the extractor and keys of the builder *)

\* the entries of the unit of directory d, in the order they are extracted
EntriesIn(tree, d) == SimpleResources(UnitDoc(tree, d))

\* the forward map fwd records the unit of directory d under the identifier of
\* its unit file, and for every entry of that unit pointing at a directory of
\* the tree that holds a unit, the identifier recorded is the key of that unit
KeysMatchRefs(tree, fwd, d) ==
    LET k == EffectiveUnitId(tree, d)
        es == EntriesIn(tree, d)
    IN  /\ k \in DOMAIN fwd
        /\ Len(fwd[k]) = Len(es)
        /\ \A i \in 1..Len(es) :
              HoldsUnit(tree, Target(d, es[i])) =>
                  /\ fwd[k][i] = EffectiveUnitId(tree, Target(d, es[i]))
                  /\ fwd[k][i] \in DOMAIN fwd

====
